---- MODULE Spec2Model ----
(***************************************************************************)
(* A model of realtime_sync.py: the path filter (is_excluded), the remote  *)
(* scanner (walk_remote), the reconciliation pass (perform_initial_sync)   *)
(* and the per-target supervisor (sync_worker) started by main.            *)
(*                                                                         *)
(* Strings are sequences of one-character strings, so that sorting,        *)
(* basename, splitext and fnmatch are computed character by character, as  *)
(* Python computes them.  A relative path is such a string, with "/" as    *)
(* the separator (os.sep on the platforms inotify exists on).              *)
(***************************************************************************)
EXTENDS Integers, Sequences, FiniteSets, TLC

(***************************************************************************)
(* Bounds of the model.                                                    *)
(***************************************************************************)
\* local changes (filesystem mutations under the local root) per target
MaxChanges == 2
\* connection attempts per run of a worker
MaxConnects == 2
\* runs of the program (a run is one execution of main)
MaxRuns == 2
\* capacity of the inotify event queue (fs.inotify.max_queued_events)
MaxQueue == 2
\* transient failures of remote operations (permission denied, link lost)
\* injected per target; failures the remote tree itself causes are not counted
MaxFaults == 1
\* resolution of local modification times: st_mtime is a float, modelled in
\* ticks of 1/TicksPerSec second; remote st_mtime is in whole seconds
TicksPerSec == 2

Targets == {1, 2}

\* the seconds sync_worker sleeps before it connects again
RECONNECT_DELAY == 30

(***************************************************************************)
(* Strings.                                                                *)
(***************************************************************************)
S_a     == <<"a">>
S_ac    == <<"a", ".", "c">>
S_ax    == <<"a", "/", "x", ".", "p", "y">>
S_c     == <<"c">>
S_star_py == <<"*", ".", "p", "y">>

\* ord(c) for the characters the model's names are spelled with
Ord(c) ==
    CASE c = "*" -> 42
      [] c = "." -> 46
      [] c = "/" -> 47
      [] c = "?" -> 63
      [] c = "C" -> 67
      [] c = "a" -> 97
      [] c = "c" -> 99
      [] c = "p" -> 112
      [] c = "x" -> 120
      [] c = "y" -> 121

\* str.lower on one character
LowerChar(c) == IF c = "C" THEN "c" ELSE c

Lower(s) == [i \in 1..Len(s) |-> LowerChar(s[i])]

\* s < t for Python strings: the first differing character decides, a proper
\* prefix is smaller
RECURSIVE StrLess(_, _)
StrLess(s, t) ==
    IF t = <<>> THEN FALSE
    ELSE IF s = <<>> THEN TRUE
    ELSE IF Ord(Head(s)) # Ord(Head(t)) THEN Ord(Head(s)) < Ord(Head(t))
    ELSE StrLess(Tail(s), Tail(t))

\* sorted(list(S)) for a set of strings
RECURSIVE Sorted(_)
Sorted(S) ==
    IF S = {} THEN <<>>
    ELSE LET m == CHOOSE x \in S : \A y \in S \ {x} : StrLess(x, y)
         IN  <<m>> \o Sorted(S \ {m})

\* sorted(list(S), reverse=True)
SortedReverse(S) ==
    LET s == Sorted(S) IN [i \in 1..Len(s) |-> s[Len(s) + 1 - i]]

\* position of the last occurrence of character c in s, 0 when absent
LastIndex(s, c) ==
    LET I == {i \in 1..Len(s) : s[i] = c}
    IN  IF I = {} THEN 0 ELSE CHOOSE i \in I : \A j \in I : j <= i

\* os.path.basename: what follows the last "/"
basename(path) == SubSeq(path, LastIndex(path, "/") + 1, Len(path))

\* os.path.dirname of a relative path: what precedes the last "/"
dirname(path) == SubSeq(path, 1, LastIndex(path, "/") - 1)

\* os.path.join(a, b) for a relative b; joining onto the root "" adds no "/"
join(a, b) == IF a = <<>> THEN b ELSE a \o <<"/">> \o b

\* os.path.splitext(base)[1]: from the last "." on, unless only leading dots
\* precede it
splitext_ext(base) ==
    LET d == LastIndex(base, ".")
    IN  IF d = 0 \/ (\A i \in 1..d : base[i] = ".") THEN <<>>
        ELSE SubSeq(base, d, Len(base))

\* fnmatch.fnmatch(name, pat) for patterns made of literals, "*" and "?"
RECURSIVE fnmatch(_, _)
fnmatch(name, pat) ==
    IF pat = <<>> THEN name = <<>>
    ELSE IF Head(pat) = "*"
         THEN fnmatch(name, Tail(pat))
              \/ (name # <<>> /\ fnmatch(Tail(name), pat))
    ELSE IF name = <<>> THEN FALSE
    ELSE (Head(pat) = "?" \/ Head(pat) = Head(name))
         /\ fnmatch(Tail(name), Tail(pat))

SOURCE_CODE_EXTENSIONS ==
    { <<".", "p", "y">>, <<".", "j", "s">>, <<".", "h", "t", "m", "l">>,
      <<".", "c", "s", "s">>, <<".", "s", "c", "s", "s">>,
      <<".", "j", "a", "v", "a">>, <<".", "c">>, <<".", "c", "p", "p">>,
      <<".", "h">>, <<".", "h", "p", "p">>, <<".", "g", "o">>,
      <<".", "r", "s">>, <<".", "p", "h", "p">>, <<".", "r", "b">>,
      <<".", "t", "s">>, <<".", "t", "s", "x">>, <<".", "j", "s", "x">>,
      <<".", "j", "s", "o", "n">>, <<".", "y", "m", "l">>,
      <<".", "y", "a", "m", "l">>, <<".", "m", "d">>, <<".", "s", "h">>,
      <<".", "x", "m", "l">>, <<".", "s", "q", "l">> }

\* is_excluded(path, exclude_patterns, source_code_only).  cwd_isdir is the
\* value of os.path.isdir(path): path is relative, so the answer is read
\* from the process's working directory.
is_excluded(path, exclude_patterns, source_code_only, cwd_isdir) ==
    LET base_name == basename(path)
    IN  IF \E i \in 1..Len(exclude_patterns) :
               fnmatch(path, exclude_patterns[i])
               \/ fnmatch(base_name, exclude_patterns[i])
        THEN TRUE
        ELSE IF source_code_only
        THEN IF cwd_isdir THEN FALSE
             ELSE Lower(splitext_ext(base_name)) \notin SOURCE_CODE_EXTENSIONS
        ELSE FALSE

(***************************************************************************)
(* File trees.  A tree maps each existing relative path to its entry; the  *)
(* root itself is the empty path and has no entry.                         *)
(***************************************************************************)
DirEntry == [is_dir |-> TRUE, size |-> 0, mtime |-> 0]

FileEntry(size, mtime) == [is_dir |-> FALSE, size |-> size, mtime |-> mtime]

IsDirIn(tree, path) ==
    path = <<>> \/ (path \in DOMAIN tree /\ tree[path].is_dir)

Children(tree, dir) == {p \in DOMAIN tree : dirname(p) = dir}

Put(tree, path, entry) ==
    [q \in DOMAIN tree \cup {path} |-> IF q = path THEN entry ELSE tree[q]]

Drop(tree, path) == [q \in DOMAIN tree \ {path} |-> tree[q]]

\* int(st_mtime) of a local modification time
IntSec(mtime) == mtime \div TicksPerSec

VARIABLES
    cfg,        \* per target: its configuration record (config.json entry)
    rclock,     \* per target: the remote host's clock, in seconds
    lfs,        \* per target: the local tree under local_path
    rfs,        \* per target: the remote tree under remote_path
    mainpc,     \* position of main
    pc,         \* per target: position of its sync_worker
    run,        \* number of the current run of the program
    session,    \* per target: number of the open SFTP session, 0 when none
    connects,   \* per target: connection attempts made in this run
    faults,     \* per target: transient failures injected so far
    changes,    \* per target: local changes made so far
    kw,         \* per target: the kernel's active watches, path -> wd
    nextwd,     \* per target: the next watch descriptor inotify hands out
    wd_map,     \* per target: sync_worker's wd_map, wd -> watched path
    queue,      \* per target: events queued in the inotify instance
    batch,      \* per target: events of the current inotify.read, not yet handled
    plan,       \* per target: the differences computed by the current pass
    todo,       \* per target: the part of the plan not yet executed
    passno,     \* per target: number of passes started (scans completed)
    passdone,   \* per target: number of passes completed
    reported,   \* per target: the count of extra remote items last printed
    log,        \* per target: every remote operation issued, in order
    lost,       \* per target: the calls of events read from inotify whose
                \* handling never came to an end
    waited      \* per target: the lengths of the sleeps made before reconnecting

vars == <<cfg, rclock, lfs, rfs, mainpc, pc, run, session, connects, faults,
          changes, kw, nextwd, wd_map, queue, batch, plan, todo, passno,
          passdone, reported, log, lost, waited>>

\* what no step of the program writes, and what only Backoff writes
envVars == <<cfg, rclock, waited>>
watchVars == <<kw, nextwd, wd_map, queue, batch, lost>>
syncVars == <<plan, todo, passno, passdone, reported>>

(***************************************************************************)
(* The scanners.                                                           *)
(***************************************************************************)
StripSlash(path) ==
    IF path # <<>> /\ path[Len(path)] = "/"
    THEN SubSeq(path, 1, Len(path) - 1) ELSE path

\* os.path.isdir(path) for the relative path handed to is_excluded: true only
\* when the working directory is the local root and path is a directory there
CwdIsDir(c, ltree, path) == c.cwd_is_root /\ IsDirIn(ltree, StripSlash(path))

\* the os.walk loop of perform_initial_sync: stack holds the directories still
\* to visit, found the paths recorded in local_map so far
RECURSIVE local_walk(_, _, _, _)
local_walk(c, ltree, stack, found) ==
    IF stack = <<>> THEN found
    ELSE LET root == stack[Len(stack)]
             rest == SubSeq(stack, 1, Len(stack) - 1)
             dirs == {d \in Children(ltree, root) :
                        /\ ltree[d].is_dir
                        /\ ~is_excluded(d \o <<"/">>, c.exclude_patterns,
                                        FALSE, FALSE)}
             files == {f \in Children(ltree, root) :
                        /\ ~ltree[f].is_dir
                        /\ ~is_excluded(f, c.exclude_patterns,
                                        c.source_code_only,
                                        CwdIsDir(c, ltree, f))}
         IN  local_walk(c, ltree, rest \o Sorted(dirs),
                        found \cup dirs \cup files)

\* local_map of perform_initial_sync
local_scan(c, ltree) ==
    LET found == local_walk(c, ltree, <<(<<>>)>>, {})
    IN  [p \in found |-> ltree[p]]

\* the while loop of walk_remote
RECURSIVE walk_remote_loop(_, _, _, _, _)
walk_remote_loop(c, ltree, rtree, stack, found) ==
    IF stack = <<>> THEN found
    ELSE LET current_rel_path == stack[Len(stack)]
             rest == SubSeq(stack, 1, Len(stack) - 1)
             kept == {p \in Children(rtree, current_rel_path) :
                        LET is_dir == rtree[p].is_dir
                            exclude_check_path ==
                                IF is_dir THEN p \o <<"/">> ELSE p
                            sco == c.source_code_only /\ ~is_dir
                        IN  ~is_excluded(exclude_check_path,
                                         c.exclude_patterns, sco,
                                         CwdIsDir(c, ltree, exclude_check_path))}
             dirs == {p \in kept : rtree[p].is_dir}
         IN  walk_remote_loop(c, ltree, rtree, rest \o Sorted(dirs),
                              found \cup kept)

\* remote_map returned by walk_remote
walk_remote(c, ltree, rtree) ==
    LET found == walk_remote_loop(c, ltree, rtree, <<(<<>>)>>, {})
    IN  [p \in found |-> rtree[p]]

(***************************************************************************)
(* The differences of one pass.                                            *)
(***************************************************************************)
\* needs_update with the two tests joined by "and"
needs_update_and(local_file_stat, remote_file_attr) ==
    /\ IntSec(local_file_stat.mtime) > remote_file_attr.mtime + 1
    /\ local_file_stat.size # remote_file_attr.size

\* needs_update without the tolerance of one second
needs_update_no_tolerance(local_file_stat, remote_file_attr) ==
    \/ IntSec(local_file_stat.mtime) > remote_file_attr.mtime
    \/ local_file_stat.size # remote_file_attr.size

\* the test that re-uploads a file present on both sides
needs_update(local_file_stat, remote_file_attr) ==
    \/ IntSec(local_file_stat.mtime) > remote_file_attr.mtime + 1
    \/ local_file_stat.size # remote_file_attr.size

\* upload_order without the sort putting parents first
upload_order_reversed(to_upload) == SortedReverse(to_upload)

\* the order in which the create set is processed
upload_order(to_upload) == Sorted(to_upload)

\* delete_order with the sort not reversed
delete_order_ascending(to_delete) == Sorted(to_delete)

\* the order in which the delete set is processed
delete_order(to_delete) == SortedReverse(to_delete)

\* deletion_allowed with the policy ignored
deletion_always_allowed(c) == TRUE

\* deletion_allowed with the policy never honoured
deletion_never_allowed(c) == FALSE

\* whether the delete set is acted upon
deletion_allowed(c) == c.allow_delete

\* steps 3 and 4 of perform_initial_sync, without the remote calls: what will
\* be issued, in which order
make_plan(c, local_map, remote_map) ==
    LET local_paths == DOMAIN local_map
        remote_paths == DOMAIN remote_map
        to_upload == local_paths \ remote_paths
        to_delete == remote_paths \ local_paths
        to_check == local_paths \cap remote_paths
        ups == upload_order(to_upload)
        dels == IF deletion_allowed(c) THEN delete_order(to_delete) ELSE <<>>
    IN  [ up  |-> [i \in 1..Len(ups) |->
                     [op   |-> IF local_map[ups[i]].is_dir
                               THEN "mkdir" ELSE "put",
                      path |-> ups[i]]],
          chk |-> {p \in to_check :
                     /\ ~local_map[p].is_dir
                     /\ needs_update(local_map[p], remote_map[p])},
          del |-> [i \in 1..Len(dels) |->
                     [op   |-> IF remote_map[dels[i]].is_dir
                               THEN "rmdir" ELSE "remove",
                      path |-> dels[i]]],
          extra |-> Cardinality(to_delete),
          local_map |-> local_map,
          remote_map |-> remote_map,
          to_upload |-> to_upload,
          to_delete |-> to_delete,
          to_check  |-> to_check ]

NoPlan == [up |-> <<>>, chk |-> {}, del |-> <<>>, extra |-> 0,
           local_map |-> <<>>, remote_map |-> <<>>, to_upload |-> {}, to_delete |-> {}, to_check |-> {}]

NoTodo == [up |-> <<>>, chk |-> {}, del |-> <<>>]

(***************************************************************************)
(* The transport: what the SFTP server does with one request.              *)
(***************************************************************************)
\* whether the server carries the request out (it raises otherwise)
remote_accepts(op, path, ltree, rtree) ==
    CASE op = "mkdir" ->
            path \notin DOMAIN rtree /\ IsDirIn(rtree, dirname(path))
      [] op = "put" ->
            /\ path \in DOMAIN ltree /\ ~ltree[path].is_dir
            /\ IsDirIn(rtree, dirname(path))
            /\ (path \in DOMAIN rtree => ~rtree[path].is_dir)
      [] op = "remove" ->
            path \in DOMAIN rtree /\ ~rtree[path].is_dir
      [] op = "rmdir" ->
            /\ path \in DOMAIN rtree /\ rtree[path].is_dir
            /\ Children(rtree, path) = {}

\* the remote tree after the request was carried out; an upload is stamped
\* with the server's clock
remote_apply(op, path, ltree, rtree, now) ==
    CASE op = "mkdir"  -> Put(rtree, path, DirEntry)
      [] op = "put"    -> Put(rtree, path, FileEntry(ltree[path].size, now))
      [] op = "remove" -> Drop(rtree, path)
      [] op = "rmdir"  -> Drop(rtree, path)

(***************************************************************************)
(* Watch registration.                                                     *)
(***************************************************************************)
Exists(ltree, path) == path = <<>> \/ path \in DOMAIN ltree

\* the paths add_watch_recursively(path) calls inotify.add_watch on: stack
\* holds the pending calls
RECURSIVE watch_walk(_, _, _, _)
watch_walk(c, ltree, stack, found) ==
    IF stack = <<>> THEN found
    ELSE LET path == stack[Len(stack)]
             rest == SubSeq(stack, 1, Len(stack) - 1)
             is_dir == IsDirIn(ltree, path)
             check == path \o <<"/">>
             skip == \/ ~Exists(ltree, path)
                     \/ is_excluded(check, c.exclude_patterns,
                                    ~is_dir /\ c.source_code_only,
                                    CwdIsDir(c, ltree, check))
             subdirs == IF is_dir
                        THEN {d \in Children(ltree, path) : ltree[d].is_dir}
                        ELSE {}
         IN  IF skip THEN watch_walk(c, ltree, rest, found)
             ELSE watch_walk(c, ltree, rest \o Sorted(subdirs),
                             found \cup {path})

\* inotify.add_watch and wd_map[wd] = path for each path of paths, in order:
\* a path the kernel already watches keeps its descriptor
RECURSIVE register(_, _)
register(w, paths) ==
    IF paths = <<>> THEN w
    ELSE LET path == Head(paths)
             known == path \in DOMAIN w.kw
             wd == IF known THEN w.kw[path] ELSE w.nextwd
         IN  register([kw     |-> IF known THEN w.kw
                                  ELSE (path :> wd) @@ w.kw,
                       nextwd |-> IF known THEN w.nextwd ELSE w.nextwd + 1,
                       wd_map |-> (wd :> path) @@ w.wd_map],
                      Tail(paths))

\* add_watch_recursively with the registry built anew at each call
add_watch_recursively_reset(c, ltree, w, path) ==
    CHOOSE r \in {register([w EXCEPT !.wd_map = <<>>], paths) :
                    paths \in {Sorted(watch_walk(c, ltree, <<path>>, {}))}} :
        TRUE

\* add_watch_recursively(path), from the watch state w (the list of paths is
\* bound as a value, so that it is computed once)
add_watch_recursively(c, ltree, w, path) ==
    CHOOSE r \in {register(w, paths) :
                    paths \in {Sorted(watch_walk(c, ltree, <<path>>, {}))}} :
        TRUE

NoWatches == [kw |-> <<>>, nextwd |-> 1, wd_map |-> <<>>]

(***************************************************************************)
(* Initial states.                                                         *)
(***************************************************************************)
OffConfig ==
    [enabled |-> FALSE, root_ok |-> TRUE, initial_sync |-> FALSE,
     allow_delete |-> FALSE, source_code_only |-> FALSE,
     exclude_patterns |-> <<>>, cwd_is_root |-> FALSE,
                       permissive |-> FALSE]

EmptyTree == <<>>

\* every target but target 1 is a disabled entry of config.json
Only(x, off) == [t \in Targets |-> IF t = 1 THEN x ELSE off]

All(x) == [t \in Targets |-> x]

InitRest ==
    /\ mainpc = "load"
    /\ pc = All("idle")
    /\ run = 1
    /\ session = All(0)
    /\ connects = All(0)
    /\ faults = All(0)
    /\ changes = All(0)
    /\ kw = All(<<>>)
    /\ nextwd = All(1)
    /\ wd_map = All(<<>>)
    /\ queue = All(<<>>)
    /\ batch = All(<<>>)
    /\ plan = All(NoPlan)
    /\ todo = All(NoTodo)
    /\ passno = All(0)
    /\ passdone = All(0)
    /\ reported = All(0)
    /\ log = All(<<>>)
    /\ lost = All(<<>>)
    /\ waited = All({})

\* the trees over the paths a, a/x.py and a.c: a is absent, a file or a
\* directory; files take their size and modification time from sz and mt
Shapes ==
    {S \in SUBSET {"aF", "aD", "ax", "ac"} :
        /\ ~("aF" \in S /\ "aD" \in S)
        /\ ("ax" \in S => "aD" \in S)}

TreeOf(S, sz, mt) ==
    LET dom == (IF "aF" \in S \/ "aD" \in S THEN {S_a} ELSE {})
               \cup (IF "ax" \in S THEN {S_ax} ELSE {})
               \cup (IF "ac" \in S THEN {S_ac} ELSE {})
    IN  [p \in dom |-> IF p = S_a /\ "aD" \in S THEN DirEntry
                       ELSE FileEntry(sz, mt)]

\* no pattern, the pattern *.py, the pattern a
Patterns == {<<>>, <<S_star_py>>, <<S_a>>}

\* source_code_only with the working directory elsewhere or at the local root
Filters == {<<FALSE, FALSE>>, <<TRUE, FALSE>>, <<TRUE, TRUE>>}

Sizes == {1, 2}
\* local modification times 1.0 s, 2.5 s and 3.0 s
LocalTimes == {TicksPerSec, 2 * TicksPerSec + 1, 3 * TicksPerSec}
\* remote modification times and clock readings, in seconds
RemoteTimes == {1, 3}

\* trees of every shape, with one size and one time
InitShapes ==
    \E ls \in Shapes, rs \in Shapes, pats \in Patterns, f \in Filters,
       del \in BOOLEAN :
        /\ cfg = Only([enabled |-> TRUE, root_ok |-> TRUE,
                       initial_sync |-> TRUE, allow_delete |-> del,
                       source_code_only |-> f[1], exclude_patterns |-> pats,
                       cwd_is_root |-> f[2],
                       permissive |-> FALSE], OffConfig)
        /\ rclock = All(1)
        /\ lfs = Only(TreeOf(ls, 1, TicksPerSec), EmptyTree)
        /\ rfs = Only(TreeOf(rs, 1, 1), EmptyTree)

\* the file a.c on both sides, with every size and time
InitTimes ==
    \E lsz \in Sizes, rsz \in Sizes, lmt \in LocalTimes, rmt \in RemoteTimes,
       now \in RemoteTimes :
        /\ cfg = Only([enabled |-> TRUE, root_ok |-> TRUE,
                       initial_sync |-> TRUE, allow_delete |-> FALSE,
                       source_code_only |-> FALSE, exclude_patterns |-> <<>>,
                       cwd_is_root |-> FALSE,
                       permissive |-> FALSE], OffConfig)
        /\ rclock = All(now)
        /\ lfs = Only(TreeOf({"aD", "ac"}, lsz, lmt), EmptyTree)
        /\ rfs = Only(TreeOf({"aD", "ac"}, rsz, rmt), EmptyTree)

InitRecon == (InitShapes \/ InitTimes) /\ InitRest

(***************************************************************************)
(* Remote calls.                                                           *)
(***************************************************************************)
\* the outcomes one call can have: TRUE when it returns, FALSE when it raises.
\* A call the server accepts may still raise (a transient failure)
Outcomes(t, op, path) ==
    LET acc == remote_accepts(op, path, lfs[t], rfs[t])
    IN  {ok \in BOOLEAN : IF ok THEN acc ELSE ~acc \/ faults[t] < MaxFaults}

\* one entry of the log of remote calls
Entry(t, op, path, ok, phase) ==
    [op |-> op, path |-> path, ok |-> ok, phase |-> phase,
     pass |-> passno[t], session |-> session[t], run |-> run]

\* permissive_chmod with mkdir left unpatched
permissive_chmod_put_only(c, op) == c.permissive /\ op = "put"

\* sftp_client: in permissive mode put and mkdir are replaced by versions
\* that call chmod on the same path after the original
permissive_chmod(c, op) == c.permissive /\ op \in {"mkdir", "put"}

\* the effect of one call on the remote tree, the fault count and the log; ok
\* is what the caller sees.  A patched put or mkdir raises when the original
\* raises, and chmod is then not called; it raises too when the original
\* succeeded and chmod failed.
Call(t, op, path, ok, phase) ==
    LET acc == remote_accepts(op, path, lfs[t], rfs[t])
        done == remote_apply(op, path, lfs[t], rfs[t], rclock[t])
    IN  /\ faults' = [faults EXCEPT ![t] = IF ~ok /\ acc THEN @ + 1 ELSE @]
        /\ IF ~permissive_chmod(cfg[t], op)
           THEN /\ rfs' = [rfs EXCEPT ![t] = IF ok THEN done ELSE @]
                /\ log' = [log EXCEPT ![t] =
                             Append(@, Entry(t, op, path, ok, phase))]
           ELSE \E original \in {b \in BOOLEAN : (ok => b) /\ (b => acc)} :
                  /\ rfs' = [rfs EXCEPT ![t] = IF original THEN done ELSE @]
                  /\ log' = [log EXCEPT ![t] =
                               IF original
                               THEN @ \o <<Entry(t, op, path, TRUE, phase),
                                           Entry(t, "chmod", path, ok, phase)>>
                               ELSE Append(@, Entry(t, op, path, FALSE,
                                                    phase))]

(***************************************************************************)
(* main and the start of sync_worker.                                      *)
(***************************************************************************)
\* main: one thread per enabled configuration, then join
StartThreads ==
    /\ mainpc = "load"
    /\ mainpc' = "join"
    /\ pc' = [t \in Targets |-> IF cfg[t].enabled THEN "start" ELSE pc[t]]
    /\ UNCHANGED <<envVars, lfs, rfs, run, session, connects, faults, changes,
                   watchVars, syncVars, log>>

\* root_checked_next with the check of the local root left out
root_checked_next_unchecked(c) == "connect"

\* where sync_worker goes after looking at its local root
root_checked_next(c) == IF c.root_ok THEN "connect" ELSE "stopped"

\* sync_worker up to its connection loop: the local root is checked and the
\* watches are registered
WorkerInit(t) ==
    /\ pc[t] = "start"
    /\ pc' = [pc EXCEPT ![t] = root_checked_next(cfg[t])]
    /\ IF ~cfg[t].root_ok
       THEN UNCHANGED <<kw, nextwd, wd_map>>
       ELSE \E w \in {add_watch_recursively(cfg[t], lfs[t], NoWatches, <<>>)} :
                /\ kw' = [kw EXCEPT ![t] = w.kw]
                /\ nextwd' = [nextwd EXCEPT ![t] = w.nextwd]
                /\ wd_map' = [wd_map EXCEPT ![t] = w.wd_map]
    /\ UNCHANGED <<envVars, lfs, rfs, mainpc, run, session, connects, faults,
                   changes, queue, batch, lost, syncVars, log>>

\* connected_next with the pass run whatever the configuration says
connected_next_always_sync(c) == "scan"

\* where sync_worker goes with a new session: initial sync if it is enabled
connected_next(c) == IF c.initial_sync THEN "scan" ELSE "watch"

\* one turn of the connection loop: sftp_client yields a session or None;
\* with a session, initial sync runs if it is enabled
Connect(t) ==
    /\ pc[t] = "connect"
    /\ connects[t] < MaxConnects
    /\ connects' = [connects EXCEPT ![t] = @ + 1]
    /\ \E ok \in BOOLEAN :
         IF ok
         THEN /\ session' = [session EXCEPT ![t] = connects[t] + 1]
              /\ pc' = [pc EXCEPT ![t] = connected_next(cfg[t])]
         ELSE /\ session' = [session EXCEPT ![t] = 0]
              /\ pc' = [pc EXCEPT ![t] = "sleep"]
    /\ UNCHANGED <<envVars, lfs, rfs, mainpc, run, faults, changes, watchVars,
                   syncVars, log>>

\* reconnect_delay growing with the attempts made
reconnect_delay_growing(t) == RECONNECT_DELAY * (connects[t] + 1)

\* the length of the sleep before the next connection attempt
reconnect_delay(t) == RECONNECT_DELAY

\* time.sleep(RECONNECT_DELAY) returns
Backoff(t) ==
    /\ pc[t] = "sleep"
    /\ pc' = [pc EXCEPT ![t] = "connect"]
    /\ waited' = [waited EXCEPT ![t] = @ \cup {reconnect_delay(t)}]
    /\ UNCHANGED <<cfg, rclock, lfs, rfs, mainpc, run, session, connects,
                   faults, changes, watchVars, syncVars, log>>

(***************************************************************************)
(* perform_initial_sync.                                                   *)
(***************************************************************************)
\* steps 1 to 3: both trees are scanned and the differences determined
SyncScan(t) ==
    /\ pc[t] = "scan"
    /\ \E local_map \in {local_scan(cfg[t], lfs[t])},
          remote_map \in {walk_remote(cfg[t], lfs[t], rfs[t])} :
         \E p \in {make_plan(cfg[t], local_map, remote_map)} :
           /\ plan' = [plan EXCEPT ![t] = p]
           /\ todo' = [todo EXCEPT ![t] =
                         [up |-> p.up, chk |-> p.chk, del |-> p.del]]
    /\ passno' = [passno EXCEPT ![t] = @ + 1]
    /\ pc' = [pc EXCEPT ![t] = "sync"]
    /\ UNCHANGED <<envVars, lfs, rfs, mainpc, run, session, connects, faults,
                   changes, watchVars, passdone, reported, log>>

\* a listing of walk_remote raises something other than FileNotFoundError:
\* the exception leaves perform_initial_sync and the session is closed
SyncScanFail(t) ==
    /\ pc[t] = "scan"
    /\ faults[t] < MaxFaults
    /\ faults' = [faults EXCEPT ![t] = @ + 1]
    /\ session' = [session EXCEPT ![t] = 0]
    /\ pc' = [pc EXCEPT ![t] = "sleep"]
    /\ UNCHANGED <<envVars, lfs, rfs, mainpc, run, connects, changes,
                   watchVars, syncVars, log>>

\* sync_after_error with the exception left uncaught, as in the monitoring
\* loop
sync_aborts_on_error(t) == "sleep"

\* what a call that raised inside the pass leads to: the exception is caught
\* and the pass goes on
sync_after_error(t) == "sync"

\* the next path of the create set: mkdir or put
SyncCreate(t) ==
    /\ pc[t] = "sync"
    /\ todo[t].up # <<>>
    /\ LET a == Head(todo[t].up)
       IN  \E ok \in Outcomes(t, a.op, a.path) :
             /\ Call(t, a.op, a.path, ok, "sync")
             /\ pc' = [pc EXCEPT ![t] =
                         IF ok THEN "sync" ELSE sync_after_error(t)]
    /\ todo' = [todo EXCEPT ![t].up = Tail(@)]
    /\ session' = [session EXCEPT ![t] = IF pc'[t] = "sync" THEN @ ELSE 0]
    /\ UNCHANGED <<envVars, lfs, mainpc, run, connects, changes, watchVars,
                   plan, passno, passdone, reported>>

\* some path of both sides whose file is to be updated (the set to_check is
\* iterated in no particular order)
SyncCheck(t) ==
    /\ pc[t] = "sync"
    /\ todo[t].up = <<>>
    /\ \E path \in todo[t].chk :
         /\ \E ok \in Outcomes(t, "put", path) :
              /\ Call(t, "put", path, ok, "sync")
              /\ pc' = [pc EXCEPT ![t] =
                          IF ok THEN "sync" ELSE sync_after_error(t)]
         /\ todo' = [todo EXCEPT ![t].chk = @ \ {path}]
    /\ session' = [session EXCEPT ![t] = IF pc'[t] = "sync" THEN @ ELSE 0]
    /\ UNCHANGED <<envVars, lfs, mainpc, run, connects, changes, watchVars,
                   plan, passno, passdone, reported>>

\* the next path of the delete set: rmdir or remove
SyncDelete(t) ==
    /\ pc[t] = "sync"
    /\ todo[t].up = <<>>
    /\ todo[t].chk = {}
    /\ todo[t].del # <<>>
    /\ LET a == Head(todo[t].del)
       IN  \E ok \in Outcomes(t, a.op, a.path) :
             /\ Call(t, a.op, a.path, ok, "sync")
             /\ pc' = [pc EXCEPT ![t] =
                         IF ok THEN "sync" ELSE sync_after_error(t)]
    /\ todo' = [todo EXCEPT ![t].del = Tail(@)]
    /\ session' = [session EXCEPT ![t] = IF pc'[t] = "sync" THEN @ ELSE 0]
    /\ UNCHANGED <<envVars, lfs, mainpc, run, connects, changes, watchVars,
                   plan, passno, passdone, reported>>

\* the end of the pass: with deletion disabled the number of extra remote
\* items is printed; the worker goes on to monitor
SyncDone(t) ==
    /\ pc[t] = "sync"
    /\ todo[t] = NoTodo
    /\ reported' = [reported EXCEPT ![t] =
                      IF ~deletion_allowed(cfg[t]) THEN plan[t].extra ELSE 0]
    /\ passdone' = [passdone EXCEPT ![t] = @ + 1]
    /\ pc' = [pc EXCEPT ![t] = "watch"]
    /\ UNCHANGED <<envVars, lfs, rfs, mainpc, run, session, connects, faults,
                   changes, watchVars, plan, todo, passno, log>>

(***************************************************************************)
(* The program is stopped and started again.                               *)
(***************************************************************************)
Quiet(t) ==
    \/ pc[t] \in {"idle", "stopped"}
    \/ pc[t] = "watch" /\ queue[t] = <<>>

\* a new run of main, taken when every worker idles: the trees stay as they
\* are, the connections and the inotify instances of the old process are gone
\* (the differences of the last pass are kept for reference: nothing reads
\* them before the next scan overwrites them)
Restart ==
    /\ mainpc = "join"
    /\ run < MaxRuns
    /\ \A t \in Targets : Quiet(t)
    /\ run' = run + 1
    /\ mainpc' = "load"
    /\ pc' = All("idle")
    /\ session' = All(0)
    /\ connects' = All(0)
    /\ kw' = All(<<>>)
    /\ nextwd' = All(1)
    /\ wd_map' = All(<<>>)
    /\ queue' = All(<<>>)
    /\ batch' = All(<<>>)
    /\ UNCHANGED <<envVars, lfs, rfs, faults, changes, lost, syncVars, log>>

NextRecon ==
    \/ StartThreads
    \/ Restart
    \/ \E t \in Targets :
         \/ WorkerInit(t)
         \/ Connect(t)
         \/ Backoff(t)
         \/ SyncScan(t)
         \/ SyncScanFail(t)
         \/ SyncCreate(t)
         \/ SyncCheck(t)
         \/ SyncDelete(t)
         \/ SyncDone(t)

SpecRecon == InitRecon /\ [][NextRecon]_vars

(***************************************************************************)
(* The local side: changes under the local root and the events inotify     *)
(* queues for them.                                                        *)
(***************************************************************************)
Overflow == [wd |-> -1, name |-> <<>>, kind |-> "Q_OVERFLOW", isdir |-> FALSE]

\* the kernel queues one event: when the queue is full the event is dropped
\* and a single overflow notice, which carries no watch descriptor, is queued
Enqueue1(q, e) ==
    IF Len(q) < MaxQueue THEN Append(q, e)
    ELSE IF q[Len(q)] = Overflow THEN q
    ELSE Append(q, Overflow)

RECURSIVE Enqueue(_, _)
Enqueue(q, es) ==
    IF es = <<>> THEN q ELSE Enqueue(Enqueue1(q, Head(es)), Tail(es))

\* the event a change of path raises on the watch of its parent directory
ChildEvent(t, path, kind, isdir) ==
    IF dirname(path) \in DOMAIN kw[t]
    THEN << [wd |-> kw[t][dirname(path)], name |-> basename(path),
             kind |-> kind, isdir |-> isdir] >>
    ELSE <<>>

\* the event a directory's own watch raises when the directory goes away
SelfEvent(t, path, kind) ==
    IF path \in DOMAIN kw[t]
    THEN << [wd |-> kw[t][path], name |-> <<>>, kind |-> kind,
             isdir |-> TRUE] >>
    ELSE <<>>

\* the process is alive: main waits in join, or has caught the interrupt
\* while its worker threads go on
Running == mainpc \in {"join", "interrupted"}

LiveDirs == {S_a}
LiveFiles == {S_ax, S_ac}
\* the local clock reading given to files written while the program runs
LocalNow == 3 * TicksPerSec

\* a directory or file appears under the local root: created, or moved in
LocalCreate(t, path, kind) ==
    /\ Running /\ cfg[t].enabled /\ cfg[t].root_ok
    /\ changes[t] < MaxChanges
    /\ path \notin DOMAIN lfs[t]
    /\ IsDirIn(lfs[t], dirname(path))
    /\ changes' = [changes EXCEPT ![t] = @ + 1]
    /\ lfs' = [lfs EXCEPT ![t] =
                 Put(@, path, IF path \in LiveDirs THEN DirEntry
                              ELSE FileEntry(1, LocalNow))]
    /\ queue' = [queue EXCEPT ![t] =
                   Enqueue(@, ChildEvent(t, path, kind, path \in LiveDirs))]
    /\ UNCHANGED <<envVars, rfs, mainpc, pc, run, session, connects, faults,
                   kw, nextwd, wd_map, batch, lost, syncVars, log>>

\* a file is written to
LocalModify(t, path) ==
    /\ Running /\ cfg[t].enabled /\ cfg[t].root_ok
    /\ changes[t] < MaxChanges
    /\ path \in DOMAIN lfs[t] /\ ~lfs[t][path].is_dir
    /\ changes' = [changes EXCEPT ![t] = @ + 1]
    /\ lfs' = [lfs EXCEPT ![t] =
                 Put(@, path, FileEntry(3 - lfs[t][path].size, LocalNow))]
    /\ queue' = [queue EXCEPT ![t] =
                   Enqueue(@, ChildEvent(t, path, "MODIFY", FALSE))]
    /\ UNCHANGED <<envVars, rfs, mainpc, pc, run, session, connects, faults,
                   kw, nextwd, wd_map, batch, lost, syncVars, log>>

\* a file or an empty directory goes away: deleted, or moved out.  The watch
\* of a directory that goes away raises its own notice first and no longer
\* belongs to a directory of the tree
LocalRemove(t, path, kind) ==
    /\ Running /\ cfg[t].enabled /\ cfg[t].root_ok
    /\ changes[t] < MaxChanges
    /\ path \in DOMAIN lfs[t]
    /\ Children(lfs[t], path) = {}
    /\ changes' = [changes EXCEPT ![t] = @ + 1]
    /\ lfs' = [lfs EXCEPT ![t] = Drop(@, path)]
    /\ queue' = [queue EXCEPT ![t] =
                   Enqueue(@, SelfEvent(t, path,
                                        IF kind = "DELETE" THEN "DELETE_SELF"
                                        ELSE "MOVE_SELF")
                              \o ChildEvent(t, path, kind,
                                            lfs[t][path].is_dir))]
    /\ kw' = [kw EXCEPT ![t] = [d \in DOMAIN @ \ {path} |-> @[d]]]
    /\ UNCHANGED <<envVars, rfs, mainpc, pc, run, session, connects, faults,
                   nextwd, wd_map, batch, lost, syncVars, log>>

(***************************************************************************)
(* The monitoring loop of sync_worker.                                     *)
(***************************************************************************)
NoCall == [op |-> "none", path |-> <<>>, event_path |-> <<>>]

\* the body of the for loop up to the remote call: the call one event is
\* translated to, or NoCall
translate(c, ltree, wmap, event) ==
    IF event.wd \notin DOMAIN wmap THEN NoCall
    ELSE
    LET parent_dir_path == wmap[event.wd]
        \* os.path.relpath(os.path.join(parent_dir_path, event.name), local_path)
        rel_path == IF event.name = <<>>
                    THEN (IF parent_dir_path = <<>> THEN <<".">>
                          ELSE parent_dir_path)
                    ELSE join(parent_dir_path, event.name)
        exclude_path_check ==
            IF event.isdir THEN rel_path \o <<"/">> ELSE rel_path
        call(op) == [op |-> op, path |-> rel_path, event_path |-> rel_path]
    IN  IF is_excluded(exclude_path_check, c.exclude_patterns,
                       c.source_code_only,
                       CwdIsDir(c, ltree, exclude_path_check))
        THEN NoCall
        ELSE IF event.kind \in {"CREATE", "MOVED_TO"}
        THEN (IF event.isdir THEN call("mkdir") ELSE call("put"))
        ELSE IF event.kind = "MODIFY" /\ ~event.isdir
        THEN call("put")
        ELSE IF event.kind \in {"DELETE", "MOVED_FROM"}
        THEN (IF event.isdir THEN call("rmdir") ELSE call("remove"))
        ELSE NoCall

\* inotify.read returns the queued events (a read that times out returns
\* none and leaves the worker where it is)
Poll(t) ==
    /\ pc[t] = "watch"
    /\ queue[t] # <<>>
    /\ batch' = [batch EXCEPT ![t] = queue[t]]
    /\ queue' = [queue EXCEPT ![t] = <<>>]
    /\ pc' = [pc EXCEPT ![t] = "events"]
    /\ UNCHANGED <<envVars, lfs, rfs, mainpc, run, session, connects, faults,
                   changes, kw, nextwd, wd_map, lost, syncVars, log>>

\* the remote calls the events of es stand for, in order
RECURSIVE Translations(_, _)
Translations(t, es) ==
    IF es = <<>> THEN <<>>
    ELSE LET a == translate(cfg[t], lfs[t], wd_map[t], Head(es))
         IN  (IF a = NoCall THEN <<>> ELSE <<a>>) \o Translations(t, Tail(es))

\* one turn of the for loop: the next event of the batch is translated and
\* its call issued.  A call that raises leaves the loops and the with block:
\* the session is closed, the rest of the batch is gone with the list that
\* held it, and the worker sleeps before it connects again
HandleEvent(t) ==
    /\ pc[t] = "events"
    /\ batch[t] # <<>>
    /\ \E a \in {translate(cfg[t], lfs[t], wd_map[t], Head(batch[t]))} :
       LET next == IF Tail(batch[t]) = <<>> THEN "watch" ELSE "events"
           w == add_watch_recursively(
                    cfg[t], lfs[t],
                    [kw |-> kw[t], nextwd |-> nextwd[t], wd_map |-> wd_map[t]],
                    a.event_path)
       IN  IF a = NoCall
           THEN /\ batch' = [batch EXCEPT ![t] = Tail(@)]
                /\ pc' = [pc EXCEPT ![t] = next]
                /\ UNCHANGED <<rfs, faults, log, session, kw, nextwd, wd_map,
                               lost>>
           ELSE \E ok \in Outcomes(t, a.op, a.path) :
                  /\ Call(t, a.op, a.path, ok, "live")
                  /\ IF a.op = "mkdir" /\ ok
                     THEN /\ kw' = [kw EXCEPT ![t] = w.kw]
                          /\ nextwd' = [nextwd EXCEPT ![t] = w.nextwd]
                          /\ wd_map' = [wd_map EXCEPT ![t] = w.wd_map]
                     ELSE UNCHANGED <<kw, nextwd, wd_map>>
                  /\ IF ok
                     THEN /\ batch' = [batch EXCEPT ![t] = Tail(@)]
                          /\ pc' = [pc EXCEPT ![t] = next]
                          /\ UNCHANGED <<session, lost>>
                     ELSE /\ batch' = [batch EXCEPT ![t] = <<>>]
                          /\ pc' = [pc EXCEPT ![t] = "sleep"]
                          /\ session' = [session EXCEPT ![t] = 0]
                          /\ lost' = [lost EXCEPT ![t] =
                                        @ \o Translations(t, batch[t])]
    /\ UNCHANGED <<envVars, lfs, mainpc, run, connects, changes, queue,
                   syncVars>>

LocalChange(t) ==
    \/ \E path \in LiveDirs \cup LiveFiles, kind \in {"CREATE", "MOVED_TO"} :
         LocalCreate(t, path, kind)
    \/ \E path \in LiveFiles : LocalModify(t, path)
    \/ \E path \in LiveDirs \cup LiveFiles, kind \in {"DELETE", "MOVED_FROM"} :
         LocalRemove(t, path, kind)

\* the program runs with initial sync on or off, every filter, and a remote
\* side that is empty or already holds the directory a
Init ==
    /\ \E sync \in BOOLEAN, f \in Filters, rs \in {{}, {"aD"}} :
         /\ cfg = Only([enabled |-> TRUE, root_ok |-> TRUE,
                        initial_sync |-> sync, allow_delete |-> TRUE,
                        source_code_only |-> f[1], exclude_patterns |-> <<>>,
                        cwd_is_root |-> f[2],
                       permissive |-> FALSE], OffConfig)
         /\ rfs = Only(TreeOf(rs, 1, 1), EmptyTree)
    /\ rclock = All(3)
    /\ lfs = All(EmptyTree)
    /\ InitRest

Next ==
    \/ StartThreads
    \/ \E t \in Targets :
         \/ WorkerInit(t)
         \/ Connect(t)
         \/ Backoff(t)
         \/ SyncScan(t)
         \/ SyncScanFail(t)
         \/ SyncCreate(t)
         \/ SyncCheck(t)
         \/ SyncDelete(t)
         \/ SyncDone(t)
         \/ Poll(t)
         \/ HandleEvent(t)
         \/ LocalChange(t)

Spec == Init /\ [][Next]_vars

(***************************************************************************)
(* The interrupt, and the program under fair scheduling.                   *)
(***************************************************************************)
\* Ctrl+C: Python runs the handler of SIGINT in the main thread only, which
\* waits in thread.join(); main catches KeyboardInterrupt, prints and
\* returns.  Nothing is raised in a worker thread and nothing tells one to
\* stop
Interrupt ==
    /\ mainpc = "join"
    /\ mainpc' = "interrupted"
    /\ UNCHANGED <<envVars, lfs, rfs, pc, run, session, connects, faults,
                   changes, watchVars, syncVars, log>>

\* the process exits once main has left join, or was interrupted in it, and
\* no worker thread is alive: the threads are not daemon threads, so the
\* interpreter waits for each of them
ProcessExit ==
    /\ Running
    /\ \A t \in Targets : pc[t] \in {"idle", "stopped"}
    /\ mainpc' = "exited"
    /\ UNCHANGED <<envVars, lfs, rfs, pc, run, session, connects, faults,
                   changes, watchVars, syncVars, log>>

\* the steps of the thread of target t
Worker(t) ==
    \/ WorkerInit(t)
    \/ Connect(t)
    \/ Backoff(t)
    \/ SyncScan(t)
    \/ SyncScanFail(t)
    \/ SyncCreate(t)
    \/ SyncCheck(t)
    \/ SyncDelete(t)
    \/ SyncDone(t)
    \/ Poll(t)
    \/ HandleEvent(t)

\* the directory a comes and goes under the local root
DirChange(t) ==
    \/ LocalCreate(t, S_a, "CREATE")
    \/ LocalRemove(t, S_a, "DELETE")

\* one target, whose local root exists or not, with initial sync on or off;
\* the two sides are empty, or the remote side holds the directory a, or both
\* hold the file a.c with different sizes
InitFair ==
    /\ \E sync \in BOOLEAN, root \in BOOLEAN,
          trees \in { <<{}, {}>>, <<{}, {"aD"}>>, <<{"ac"}, {"ac"}>> } :
         /\ cfg = Only([enabled |-> TRUE, root_ok |-> root,
                        initial_sync |-> sync, allow_delete |-> TRUE,
                        source_code_only |-> FALSE, exclude_patterns |-> <<>>,
                        cwd_is_root |-> FALSE,
                       permissive |-> FALSE], OffConfig)
         /\ lfs = Only(TreeOf(trees[1], 1, TicksPerSec), EmptyTree)
         /\ rfs = Only(TreeOf(trees[2], 2, 1), EmptyTree)
    /\ rclock = All(3)
    /\ InitRest

NextFair ==
    \/ StartThreads
    \/ Interrupt
    \/ ProcessExit
    \/ \E t \in Targets :
         \/ Worker(t)
         \/ DirChange(t)

\* every thread that can take a step takes one in the end (the operating
\* system schedules it, a sleep returns, a call returns or raises); neither
\* the local changes nor the interrupt have to happen
Fairness ==
    /\ WF_vars(StartThreads)
    /\ WF_vars(ProcessExit)
    /\ \A t \in Targets : WF_vars(Worker(t))

SpecFair == InitFair /\ [][NextFair]_vars /\ Fairness

(***************************************************************************)
(* The monitoring loop alone, with directories renamed under the root.     *)
(***************************************************************************)
\* path with its leading part from replaced by to
Rebase(path, from, to) == to \o SubSeq(path, Len(from) + 1, Len(path))

\* path is from or lies below it
Within(path, from) ==
    \/ path = from
    \/ /\ Len(path) > Len(from)
       /\ SubSeq(path, 1, Len(from) + 1) = from \o <<"/">>

\* a directory is renamed under the same parent.  The kernel's watches
\* belong to the directories themselves, so they move with the subtree; the
\* old parent's watch raises MOVED_FROM, the new parent's MOVED_TO, and the
\* watch of the directory raises MOVE_SELF
LocalRename(t, from, to) ==
    /\ Running /\ cfg[t].enabled /\ cfg[t].root_ok
    /\ changes[t] < MaxChanges
    /\ from \in DOMAIN lfs[t] /\ lfs[t][from].is_dir
    /\ to \notin DOMAIN lfs[t]
    /\ dirname(from) = dirname(to)
    /\ changes' = [changes EXCEPT ![t] = @ + 1]
    /\ LET moved(p) == IF Within(p, from) THEN Rebase(p, from, to) ELSE p
           origin(q) == CHOOSE p \in DOMAIN lfs[t] : moved(p) = q
           worigin(q) == CHOOSE p \in DOMAIN kw[t] : moved(p) = q
       IN  /\ lfs' = [lfs EXCEPT ![t] =
                        [q \in {moved(p) : p \in DOMAIN @} |-> @[origin(q)]]]
           /\ kw' = [kw EXCEPT ![t] =
                       [q \in {moved(p) : p \in DOMAIN @} |-> @[worigin(q)]]]
    /\ queue' = [queue EXCEPT ![t] =
                   Enqueue(@, ChildEvent(t, from, "MOVED_FROM", TRUE)
                              \o ChildEvent(t, to, "MOVED_TO", TRUE)
                              \o SelfEvent(t, from, "MOVE_SELF"))]
    /\ UNCHANGED <<envVars, rfs, mainpc, pc, run, session, connects, faults,
                   nextwd, wd_map, batch, lost, syncVars, log>>

\* the directory a is created, renamed to c and back, or deleted
WatchChange(t) ==
    \/ LocalCreate(t, S_a, "CREATE")
    \/ LocalRename(t, S_a, S_c)
    \/ LocalRename(t, S_c, S_a)
    \/ LocalRemove(t, S_a, "DELETE")

\* one target with initial sync disabled; the local root is empty or holds
\* the directory a, which the remote side holds too or not
InitWatch ==
    /\ \E ls \in {{}, {"aD"}}, rs \in {{}, {"aD"}} :
         /\ cfg = Only([enabled |-> TRUE, root_ok |-> TRUE,
                        initial_sync |-> FALSE, allow_delete |-> FALSE,
                        source_code_only |-> FALSE, exclude_patterns |-> <<>>,
                        cwd_is_root |-> FALSE,
                       permissive |-> FALSE], OffConfig)
         /\ lfs = Only(TreeOf(ls, 1, TicksPerSec), EmptyTree)
         /\ rfs = Only(TreeOf(rs, 1, 1), EmptyTree)
    /\ rclock = All(3)
    /\ InitRest

NextWatch ==
    \/ StartThreads
    \/ \E t \in Targets :
         \/ WorkerInit(t)
         \/ Connect(t)
         \/ Backoff(t)
         \/ Poll(t)
         \/ HandleEvent(t)
         \/ WatchChange(t)

SpecWatch == InitWatch /\ [][NextWatch]_vars

(***************************************************************************)
(* Two targets side by side.                                               *)
(***************************************************************************)
\* target 1 is enabled, with or without its local root; target 2 is enabled
\* or not, with or without its local root; each side of each target is
\* empty, or the remote side holds the directory a, or both sides hold the
\* file a.c with different sizes
InitMulti ==
    /\ \E root1 \in BOOLEAN, sync2 \in BOOLEAN,
          conf2 \in {<<TRUE, TRUE>>, <<TRUE, FALSE>>, <<FALSE, TRUE>>},
          trees1 \in { <<{}, {"aD"}>>, <<{"ac"}, {"ac"}>> },
          trees2 \in { <<{"ac"}, {}>>, <<{"ac"}, {"ac"}>> } :
         /\ cfg = [t \in Targets |->
                     [enabled |-> IF t = 1 THEN TRUE ELSE conf2[1],
                      root_ok |-> IF t = 1 THEN root1 ELSE conf2[2],
                      initial_sync |-> IF t = 1 THEN TRUE ELSE sync2,
                      allow_delete |-> TRUE, source_code_only |-> FALSE,
                      exclude_patterns |-> <<>>, cwd_is_root |-> FALSE,
                       permissive |-> FALSE]]
         /\ lfs = [t \in Targets |->
                     TreeOf(IF t = 1 THEN trees1[1] ELSE trees2[1],
                            1, TicksPerSec)]
         /\ rfs = [t \in Targets |->
                     TreeOf(IF t = 1 THEN trees1[2] ELSE trees2[2], 2, 1)]
    /\ rclock = All(3)
    /\ InitRest

\* the two workers up to their monitoring loops, with nothing changing
\* under the local roots
NextMulti ==
    \/ StartThreads
    \/ \E t \in Targets :
         \/ WorkerInit(t)
         \/ Connect(t)
         \/ Backoff(t)
         \/ SyncScan(t)
         \/ SyncScanFail(t)
         \/ SyncCreate(t)
         \/ SyncCheck(t)
         \/ SyncDelete(t)
         \/ SyncDone(t)

SpecMulti == InitMulti /\ [][NextMulti]_vars

\* one target in permissive mode or not; the local root holds the directory
\* a and the file a.c, the remote side is empty
InitPerm ==
    /\ \E perm \in BOOLEAN :
         cfg = Only([enabled |-> TRUE, root_ok |-> TRUE,
                     initial_sync |-> TRUE, allow_delete |-> TRUE,
                     source_code_only |-> FALSE, exclude_patterns |-> <<>>,
                     cwd_is_root |-> FALSE, permissive |-> perm], OffConfig)
    /\ lfs = Only(TreeOf({"aD", "ac"}, 1, TicksPerSec), EmptyTree)
    /\ rfs = All(EmptyTree)
    /\ rclock = All(3)
    /\ InitRest

SpecPerm == InitPerm /\ [][Next]_vars

(***************************************************************************)
(* Properties of the reconciliation pass.                                  *)
(***************************************************************************)
\* the remote calls pass k of target t issued, in order
PassLog(t, k) ==
    SelectSeq(log[t], LAMBDA e : e.phase = "sync" /\ e.pass = k)

\* the last pass target t started, and whether it has run to its end
LastPass(t) == PassLog(t, passno[t])

PassComplete(t) == passno[t] > 0 /\ passdone[t] = passno[t]

\* A is a directory above B
IsAbove(A, B) ==
    /\ Len(A) < Len(B)
    /\ SubSeq(B, 1, Len(A) + 1) = A \o <<"/">>

Calls(L) == [i \in 1..Len(L) |-> [op |-> L[i].op, path |-> L[i].path]]

\* C1: within one pass, every path of the create set is acted upon only
\* after a mkdir was issued for each directory of the create set above it;
\* local {a/, a/x.py} against an empty remote side gives exactly
\* [mkdir a, upload a/x.py].
C1_CreateOrder ==
    \A t \in Targets :
        LET L == LastPass(t)
            create == plan[t].to_upload
        IN  /\ \A i \in 1..Len(L) : \A A \in create :
                  (L[i].path \in create /\ IsAbove(A, L[i].path))
                  => \E j \in 1..(i - 1) : L[j].path = A /\ L[j].op = "mkdir"
            /\ ( /\ PassComplete(t)
                 /\ create = {S_a, S_ax}
                 /\ plan[t].to_check = {} /\ plan[t].to_delete = {} )
               => Calls(L) = << [op |-> "mkdir", path |-> S_a],
                                [op |-> "put", path |-> S_ax] >>

C1_Witness ==
    \E t \in Targets :
        LET L == LastPass(t)
        IN  /\ {S_a, S_ax} \subseteq plan[t].to_upload
            /\ \E i, j \in 1..Len(L) :
                  /\ i < j
                  /\ L[i].op = "mkdir" /\ L[i].path = S_a
                  /\ L[j].op = "put" /\ L[j].path = S_ax

\* C2: within one pass with deletion allowed, a directory of the delete set
\* is removed only after a remove was issued for every path of the delete
\* set below it.
C2_DeleteOrder ==
    \A t \in Targets :
        LET L == LastPass(t)
            delete == plan[t].to_delete
        IN  \A i \in 1..Len(L) : \A B \in delete :
               (L[i].path \in delete /\ IsAbove(L[i].path, B))
               => /\ L[i].op = "rmdir"
                  /\ \E j \in 1..(i - 1) :
                        L[j].path = B /\ L[j].op \in {"remove", "rmdir"}

C2_Witness ==
    \E t \in Targets :
        LET L == LastPass(t)
        IN  /\ cfg[t].allow_delete
            /\ {S_a, S_ax} \subseteq plan[t].to_delete
            /\ \E i, j \in 1..Len(L) :
                  /\ i < j
                  /\ L[i].op = "remove" /\ L[i].path = S_ax
                  /\ L[j].op = "rmdir" /\ L[j].path = S_a

\* C3: with the deletion policy off, no pass issues a remove or rmdir,
\* whatever the remote side holds; the pass reports the number of remote
\* paths absent locally.
C3_NoDeleteWhenDisabled ==
    \A t \in Targets :
        ~cfg[t].allow_delete
        => /\ \A i \in 1..Len(log[t]) :
                 log[t][i].phase = "sync"
                 => log[t][i].op \notin {"remove", "rmdir"}
           /\ PassComplete(t)
              => reported[t] = Cardinality(DOMAIN plan[t].remote_map
                                           \ DOMAIN plan[t].local_map)

C3_Witness ==
    \E t \in Targets :
        /\ ~cfg[t].allow_delete
        /\ PassComplete(t)
        /\ reported[t] >= 1
        /\ plan[t].to_delete # {}

AllOk(L) == \A i \in 1..Len(L) : L[i].ok

\* every upload of L left a remote modification time that the local file's
\* whole-second modification time exceeds by no more than 1
StampedInTolerance(t, L) ==
    \A i \in 1..Len(L) :
        L[i].op = "put"
        => IntSec(lfs[t][L[i].path].mtime) <= rclock[t] + 1

ComparedFiles(t) ==
    {p \in plan[t].to_check : ~plan[t].local_map[p].is_dir}

Uploaded(t, p) ==
    \E i \in 1..Len(LastPass(t)) :
        LastPass(t)[i].op = "put" /\ LastPass(t)[i].path = p

\* C5 as stated: a file of both snapshots is uploaded iff its local
\* modification time exceeds the remote one by more than 1 second or the
\* sizes differ.
C5_Compare_AsStated ==
    \A t \in Targets :
        PassComplete(t)
        => \A p \in ComparedFiles(t) :
              Uploaded(t, p)
              <=> \/ plan[t].local_map[p].mtime
                       > (plan[t].remote_map[p].mtime + 1) * TicksPerSec
                  \/ plan[t].local_map[p].size # plan[t].remote_map[p].size

\* C5, amended: a file of both snapshots is uploaded iff its local
\* modification time, truncated to whole seconds, exceeds the remote one by
\* more than 1 second or the sizes differ; a size difference alone suffices,
\* and a path whose local entry is a directory issues nothing.
C5_Compare ==
    \A t \in Targets :
        PassComplete(t)
        => /\ \A p \in ComparedFiles(t) :
                 /\ Uploaded(t, p)
                    <=> \/ IntSec(plan[t].local_map[p].mtime)
                             > plan[t].remote_map[p].mtime + 1
                        \/ plan[t].local_map[p].size
                             # plan[t].remote_map[p].size
                 /\ plan[t].local_map[p].size # plan[t].remote_map[p].size
                    => Uploaded(t, p)
           /\ \A p \in plan[t].to_check \ ComparedFiles(t) :
                 \A i \in 1..Len(LastPass(t)) : LastPass(t)[i].path # p

C5_Witness ==
    \E t \in Targets :
        /\ PassComplete(t)
        /\ \E p \in ComparedFiles(t) :
              /\ plan[t].local_map[p].size = plan[t].remote_map[p].size
              /\ plan[t].local_map[p].mtime
                   = (plan[t].remote_map[p].mtime + 2) * TicksPerSec
              /\ Uploaded(t, p)
        /\ \E p \in plan[t].to_check : plan[t].local_map[p].is_dir

\* what the claim says of the two sides after a pass: every path of the
\* local snapshot is in a fresh remote scan (which holds exactly those paths
\* with deletion allowed), with the same kind and, for files, the same size
Mirrored(t) ==
    LET local_map == local_scan(cfg[t], lfs[t])
        remote_map == walk_remote(cfg[t], lfs[t], rfs[t])
    IN  /\ DOMAIN local_map \subseteq DOMAIN remote_map
        /\ cfg[t].allow_delete => DOMAIN remote_map = DOMAIN local_map
        /\ \A p \in DOMAIN local_map \cap DOMAIN remote_map :
              /\ local_map[p].is_dir = remote_map[p].is_dir
              /\ ~local_map[p].is_dir
                 => local_map[p].size = remote_map[p].size

\* C6 as stated: after a pass whose calls all succeeded, with no local change
\* meanwhile, the remote side mirrors the local snapshot.
C6_Mirror_AsStated ==
    \A t \in Targets :
        (PassComplete(t) /\ pc[t] = "watch" /\ AllOk(LastPass(t)))
        => Mirrored(t)

\* no path was a directory on one side and a file on the other when the
\* last pass scanned the two sides
SameKindsAtScan(t) ==
    \A p \in plan[t].to_check :
        plan[t].local_map[p].is_dir = plan[t].remote_map[p].is_dir

\* C6, amended: after a pass whose calls all succeeded, with no local change
\* meanwhile, the remote side mirrors the local snapshot, provided every
\* path the two snapshots shared at the start of the pass had the same kind
\* on both sides.
C6_Mirror ==
    \A t \in Targets :
        ( /\ PassComplete(t) /\ pc[t] = "watch"
          /\ AllOk(LastPass(t))
          /\ SameKindsAtScan(t) )
        => Mirrored(t)

C6_Witness ==
    \E t \in Targets :
        LET L == LastPass(t)
        IN  /\ PassComplete(t) /\ pc[t] = "watch"
            /\ AllOk(L) /\ SameKindsAtScan(t)
            /\ cfg[t].allow_delete
            /\ \E i \in 1..Len(L) : L[i].op = "put"
            /\ \E i \in 1..Len(L) : L[i].op \in {"remove", "rmdir"}
            /\ Mirrored(t)

\* the remote calls the last pass planned, in the order planned (the
\* compared files in the order they were taken)
PlannedCalls(t, L) ==
    LET nu == Len(plan[t].up)
        nc == Cardinality(plan[t].chk)
        nd == Len(plan[t].del)
    IN  /\ Len(L) = nu + nc + nd
        /\ SubSeq(Calls(L), 1, nu) = plan[t].up
        /\ {L[i].path : i \in (nu + 1)..(nu + nc)} = plan[t].chk
        /\ \A i \in (nu + 1)..(nu + nc) : L[i].op = "put"
        /\ SubSeq(Calls(L), nu + nc + 1, nu + nc + nd) = plan[t].del

\* C7: a call that fails does not end the pass: a pass once started is
\* either still running or has issued every planned call in the planned
\* order and handed over to monitoring.
C7_PassNeverAborts ==
    \A t \in Targets :
        /\ passno[t] > passdone[t] => pc[t] = "sync"
        /\ PassComplete(t) => PlannedCalls(t, LastPass(t))

C7_Witness ==
    \E t \in Targets :
        LET L == LastPass(t)
        IN  /\ PassComplete(t) /\ pc[t] = "watch"
            /\ Len(L) >= 2
            /\ ~L[1].ok
            /\ L[2].ok

(***************************************************************************)
(* Properties of the monitoring loop.                                      *)
(***************************************************************************)
\* this step issued a call of the monitoring loop that the server refused
\* (the directory exists, the path is gone, ...): a failure of one action on
\* a session that is otherwise healthy
LiveCallRefused(t) ==
    /\ Len(log'[t]) = Len(log[t]) + 1
    /\ LET e == log'[t][Len(log'[t])]
       IN  /\ e.phase = "live"
           /\ ~e.ok
           /\ ~remote_accepts(e.op, e.path, lfs[t], rfs[t])

\* C8: a single failing call of the monitoring loop is skipped: the worker
\* stays in the loop, on the same session, and goes on with the next event
\* of the batch.
C8_LiveFailureSkipped ==
    [][\A t \in Targets :
          LiveCallRefused(t)
          => /\ session'[t] = session[t]
             /\ pc'[t] \in {"watch", "events"}
             /\ batch'[t] = Tail(batch[t])]_vars

\* the remote side shows what the local side holds at the path of call a
Reflected(t, a) ==
    LET p == a.path
    IN  /\ p \in DOMAIN lfs[t] <=> p \in DOMAIN rfs[t]
        /\ p \in DOMAIN lfs[t]
           => /\ lfs[t][p].is_dir = rfs[t][p].is_dir
              /\ ~lfs[t][p].is_dir => lfs[t][p].size = rfs[t][p].size

\* C9: no update is dropped for good: once the worker is back in its poll
\* loop on an open session with nothing left to read, every event inotify
\* returned for a known watch and a path that is not excluded has been
\* translated or made up for, so the remote side shows the local state of
\* its path.
C9_NoUpdateDropped ==
    \A t \in Targets :
        (pc[t] = "watch" /\ session[t] # 0 /\ queue[t] = <<>>)
        => \A i \in 1..Len(lost[t]) : Reflected(t, lost[t][i])

\* the head of the batch tells of a new directory that exists and that no
\* exclusion pattern matches
NewDirEvent(t) ==
    /\ pc[t] = "events" /\ batch[t] # <<>>
    /\ LET e == Head(batch[t])
       IN  /\ e.wd \in DOMAIN wd_map[t]
           /\ e.kind \in {"CREATE", "MOVED_TO"} /\ e.isdir
           /\ LET d == join(wd_map[t][e.wd], e.name)
              IN  /\ d \in DOMAIN lfs[t] /\ lfs[t][d].is_dir
                  /\ ~is_excluded(d \o <<"/">>, cfg[t].exclude_patterns,
                                  FALSE, FALSE)

NewDir(t) == join(wd_map[t][Head(batch[t]).wd], Head(batch[t]).name)

\* C10: once the create event of a new directory has been handled, the
\* directory is watched and the registry resolves its watch, whatever the
\* configuration and whatever the remote mkdir did.
C10_NewDirWatched ==
    [][\A t \in Targets :
          (NewDirEvent(t) /\ batch'[t] # batch[t])
          => /\ NewDir(t) \in DOMAIN kw'[t]
             /\ \E wd \in DOMAIN wd_map'[t] :
                   wd_map'[t][wd] = NewDir(t) /\ kw'[t][NewDir(t)] = wd]_vars

(***************************************************************************)
(* Properties of the path filter at its call sites.                        *)
(***************************************************************************)
\* configuration c with only source_code_only changed
FlipSourceOnly(c) == [c EXCEPT !.source_code_only = ~@]

\* the directories a set of scanned paths holds
DirsOf(tree, paths) == {p \in paths : tree[p].is_dir}

\* the head of the batch is an event about a directory, on a known watch
DirEvent(t) ==
    /\ pc[t] = "events" /\ batch[t] # <<>>
    /\ Head(batch[t]).isdir
    /\ Head(batch[t]).name # <<>>
    /\ Head(batch[t]).wd \in DOMAIN wd_map[t]

\* C11: changing only source_code_only changes the inclusion of no
\* directory, at any of the four places that filter one: the local scan, the
\* remote scan, watch registration and the filter of the monitoring loop.
C11_DirFilterIgnoresSourceOnly ==
    \A t \in Targets :
        LET c == cfg[t]
            d == FlipSourceOnly(cfg[t])
        IN  /\ DirsOf(lfs[t], DOMAIN local_scan(c, lfs[t]))
               = DirsOf(lfs[t], DOMAIN local_scan(d, lfs[t]))
            /\ DirsOf(rfs[t], DOMAIN walk_remote(c, lfs[t], rfs[t]))
               = DirsOf(rfs[t], DOMAIN walk_remote(d, lfs[t], rfs[t]))
            /\ watch_walk(c, lfs[t], <<(<<>>)>>, {})
               = watch_walk(d, lfs[t], <<(<<>>)>>, {})
            /\ DirEvent(t)
               => translate(c, lfs[t], wd_map[t], Head(batch[t]))
                  = translate(d, lfs[t], wd_map[t], Head(batch[t]))

(***************************************************************************)
(* Properties of the connection loop.                                      *)
(***************************************************************************)
\* this step is a transport failure for target t: a connection attempt that
\* yields no session, or an open session that comes to an end
TransportFailure(t) ==
    \/ pc[t] = "connect" /\ pc'[t] # "connect" /\ session'[t] = 0
    \/ session[t] # 0 /\ session'[t] = 0

OutOfConnects == \E t \in Targets : pc[t] = "connect" /\ connects[t] = MaxConnects

\* C13: once the process is interrupted, every worker stops (it leaves its
\* poll loop or its wait) and the process exits.  Behaviours that end because
\* a worker is out of connections are left aside, so that what is left is a
\* worker that polls for ever.
C13_InterruptStopsAll ==
    (mainpc = "interrupted")
    ~> \/ mainpc = "exited" /\ \A t \in Targets : pc[t] \in {"idle", "stopped"}
       \/ OutOfConnects

(***************************************************************************)
(* Properties of the order of initial sync and monitoring.                 *)
(***************************************************************************)
Monitoring == {"watch", "events"}

\* the calls of the log are those of one session at a time, and on each
\* session the calls of the pass, which all belong to one pass, come before
\* the calls of the monitoring loop
PassThenLive(t) ==
    \A i, j \in 1..Len(log[t]) :
        (i < j /\ log[t][i].session = log[t][j].session)
        => /\ log[t][i].phase = "live" => log[t][j].phase = "live"
           /\ (log[t][i].phase = "sync" /\ log[t][j].phase = "sync")
              => log[t][i].pass = log[t][j].pass

\* C14: a new session goes to the pass if initial sync is enabled and
\* straight to the monitoring loop if it is not; the monitoring loop is
\* entered from a pass that has just run to its end, or, with initial sync
\* disabled, from the connect itself with nothing listed or issued; a pass
\* starts only on a new session; a call belongs to the phase the worker is
\* in, so the two phases never share a moment of a session.
C14_SyncOncePerConnect ==
    /\ [][\A t \in Targets :
            /\ (session[t] = 0 /\ session'[t] # 0)
               => pc'[t] = (IF cfg[t].initial_sync THEN "scan" ELSE "watch")
            /\ (pc[t] \notin Monitoring /\ pc'[t] \in Monitoring)
               => IF cfg[t].initial_sync
                  THEN /\ pc[t] = "sync"
                       /\ passdone'[t] = passdone[t] + 1
                       /\ passdone'[t] = passno[t]
                  ELSE /\ pc[t] = "connect"
                       /\ log'[t] = log[t] /\ rfs'[t] = rfs[t]
            /\ passno'[t] # passno[t]
               => /\ cfg[t].initial_sync
                  /\ pc[t] = "scan"
                  /\ \A i \in 1..Len(log[t]) :
                        log[t][i].session # session[t]
            /\ Len(log'[t]) > Len(log[t])
               => LET e == log'[t][Len(log'[t])]
                  IN  /\ e.session = session[t] /\ e.session # 0
                      /\ e.phase = "sync" <=> pc[t] = "sync"
                      /\ e.phase = "live" <=> pc[t] = "events"]_vars
    /\ [](\A t \in Targets :
            /\ PassThenLive(t)
            /\ ~cfg[t].initial_sync
               => /\ passno[t] = 0
                  /\ \A i \in 1..Len(log[t]) : log[t][i].phase = "live")

\* on one session a pass issued a call, ran to its end, and a call of the
\* monitoring loop followed
C14_Witness ==
    \E t \in Targets :
        /\ cfg[t].initial_sync
        /\ pc[t] = "watch" /\ session[t] # 0
        /\ PassComplete(t)
        /\ \E i, j \in 1..Len(log[t]) :
              /\ i < j
              /\ log[t][i].session = session[t] /\ log[t][i].phase = "sync"
              /\ log[t][j].session = session[t] /\ log[t][j].phase = "live"

(***************************************************************************)
(* Properties of the translation of events.                                *)
(***************************************************************************)
\* the path filter as it is specified: patterns are matched against the
\* path (with a trailing slash for a directory) and the base name, and the
\* extension rule applies to files only
Filtered(c, path, isdir) ==
    is_excluded(IF isdir THEN path \o <<"/">> ELSE path,
                c.exclude_patterns, c.source_code_only /\ ~isdir, FALSE)

\* the remote action the table gives for an event, NoCall for none
TableAction(t, e) ==
    IF e.wd \notin DOMAIN wd_map[t] \/ e.name = <<>> THEN NoCall
    ELSE LET path == join(wd_map[t][e.wd], e.name)
             call(op) == [op |-> op, path |-> path, event_path |-> path]
         IN  IF Filtered(cfg[t], path, e.isdir) THEN NoCall
             ELSE CASE e.kind \in {"CREATE", "MOVED_TO"} ->
                         IF e.isdir THEN call("mkdir") ELSE call("put")
                    [] e.kind = "MODIFY" ->
                         IF e.isdir THEN NoCall ELSE call("put")
                    [] e.kind \in {"DELETE", "MOVED_FROM"} ->
                         IF e.isdir THEN call("rmdir") ELSE call("remove")
                    [] OTHER -> NoCall

\* this step handled the event at the head of the batch of target t
Handled(t) == pc[t] = "events" /\ batch[t] # <<>> /\ batch'[t] # batch[t]

\* C15: each event is translated as the table says: no call and an unchanged
\* registry for an unknown watch, an excluded path, a modified directory and
\* the notices of a watch itself; otherwise the one call of the table, and
\* after the mkdir of a new directory the directory is in the registry.
C15_EventTable ==
    [][\A t \in Targets :
          Handled(t)
          => LET a == TableAction(t, Head(batch[t]))
             IN  IF a = NoCall
                 THEN log'[t] = log[t] /\ wd_map'[t] = wd_map[t]
                 ELSE /\ Len(log'[t]) = Len(log[t]) + 1
                      /\ log'[t][Len(log'[t])].op = a.op
                      /\ log'[t][Len(log'[t])].path = a.path
                      /\ (a.op = "mkdir" /\ a.path \in DOMAIN lfs[t])
                         => \E wd \in DOMAIN wd_map'[t] :
                               wd_map'[t][wd] = a.path]_vars

(***************************************************************************)
(* Properties of the watch registry.                                       *)
(***************************************************************************)
\* a reconnect leaves the registry and the descriptors handed out alone
ReconnectKeepsRegistry(t) ==
    pc[t] \in {"sleep", "connect"}
    => wd_map'[t] = wd_map[t] /\ nextwd'[t] = nextwd[t]

\* C16 as stated: every entry of the registry, handle and directory, stays as
\* it is in every step, and a reconnect neither clears the registry nor
\* registers anew.
C16_EntriesKept_AsStated ==
    [][\A t \in Targets :
          /\ \A wd \in DOMAIN wd_map[t] :
                /\ wd \in DOMAIN wd_map'[t]
                /\ wd_map'[t][wd] = wd_map[t][wd]
          /\ ReconnectKeepsRegistry(t)]_vars

\* C16, amended: every handle of the registry stays in it in every step; the
\* directory of a handle changes only when the directory that handle watches
\* is registered under its new path; a reconnect neither clears the registry
\* nor registers anew.
C16_HandlesKept ==
    [][\A t \in Targets :
          /\ \A wd \in DOMAIN wd_map[t] :
                /\ wd \in DOMAIN wd_map'[t]
                /\ wd_map'[t][wd] # wd_map[t][wd]
                   => /\ wd_map'[t][wd] \in DOMAIN kw[t]
                      /\ kw[t][wd_map'[t][wd]] = wd
          /\ ReconnectKeepsRegistry(t)]_vars

\* after a failure and a reconnect the registry still holds the handle of a
\* directory that is gone, next to the handle of the root
C16_Witness ==
    \E t \in Targets :
        /\ pc[t] = "watch" /\ session[t] > 1
        /\ \E wd \in DOMAIN wd_map[t] :
              /\ wd_map[t][wd] # <<>>
              /\ wd_map[t][wd] \notin DOMAIN lfs[t]
        /\ \E wd \in DOMAIN wd_map[t] : wd_map[t][wd] = <<>>

(***************************************************************************)
(* Properties of the exclusion patterns.                                   *)
(***************************************************************************)
\* some pattern matches the path, written with a trailing slash if it is a
\* directory, or the base name of the path
PatternMatches(c, path, isdir) ==
    \E i \in 1..Len(c.exclude_patterns) :
        \/ fnmatch(IF isdir THEN path \o <<"/">> ELSE path,
                   c.exclude_patterns[i])
        \/ fnmatch(basename(path), c.exclude_patterns[i])

\* configuration c with the working directory elsewhere
FlipCwd(c) == [c EXCEPT !.cwd_is_root = ~@]

\* C17: a path that a pattern matches, by its relative path or by its base
\* name, is excluded: it is in neither scan and, if a directory, not watched;
\* and what the scans and the registration keep does not depend on the
\* working directory.
C17_PatternsExclude ==
    \A t \in Targets :
        LET c == cfg[t]
            local_map == local_scan(c, lfs[t])
            remote_map == walk_remote(c, lfs[t], rfs[t])
            watched == watch_walk(c, lfs[t], <<(<<>>)>>, {})
        IN  /\ \A p \in DOMAIN lfs[t] :
                  PatternMatches(c, p, lfs[t][p].is_dir)
                  => p \notin DOMAIN local_map /\ p \notin watched
            /\ \A p \in DOMAIN rfs[t] :
                  PatternMatches(c, p, rfs[t][p].is_dir)
                  => p \notin DOMAIN remote_map
            /\ local_map = local_scan(FlipCwd(c), lfs[t])
            /\ remote_map = walk_remote(FlipCwd(c), lfs[t], rfs[t])
            /\ watched = watch_walk(FlipCwd(c), lfs[t], <<(<<>>)>>, {})

(***************************************************************************)
(* Properties of deletion under the path filter.                           *)
(***************************************************************************)
\* the path filter excludes the remote entry at path: a pattern matches it,
\* or it is a file the extension rule rejects, or a pattern matches one of
\* the directories above it
FilterExcludes(c, path, isdir) ==
    \/ PatternMatches(c, path, isdir)
    \/ /\ c.source_code_only /\ ~isdir
       /\ Lower(splitext_ext(basename(path))) \notin SOURCE_CODE_EXTENSIONS
    \/ \E k \in 1..Len(path) :
          path[k] = "/" /\ PatternMatches(c, SubSeq(path, 1, k - 1), TRUE)

\* C20: every remove and rmdir of a pass targets a path of the filtered
\* remote snapshot that the local snapshot lacks, and never an entry the
\* path filter excludes or an entry below an excluded directory.
C20_ExcludedNeverDeleted ==
    \A t \in Targets :
        \A i \in 1..Len(log[t]) :
            LET e == log[t][i]
            IN  (e.phase = "sync" /\ e.pass = passno[t]
                 /\ e.op \in {"remove", "rmdir"})
                => /\ e.path \in DOMAIN plan[t].remote_map
                   /\ e.path \notin DOMAIN plan[t].local_map
                   /\ ~FilterExcludes(cfg[t], e.path, e.op = "rmdir")

(***************************************************************************)
(* Properties of the targets side by side.                                 *)
(***************************************************************************)
\* everything the model holds for target t
Own(t) ==
    <<lfs[t], rfs[t], pc[t], session[t], connects[t], faults[t], changes[t],
      kw[t], nextwd[t], wd_map[t], queue[t], batch[t], plan[t], todo[t],
      passno[t], passdone[t], reported[t], log[t], lost[t], waited[t]>>

\* target t has not got beyond the start of its worker
NeverRan(t) ==
    /\ session[t] = 0 /\ connects[t] = 0 /\ waited[t] = {}
    /\ log[t] = <<>> /\ passno[t] = 0
    /\ kw[t] = <<>> /\ wd_map[t] = <<>>

\* C18: a target whose local root is missing stops without a session, a
\* connection attempt or a remote call; a disabled target never starts; and
\* every step of a worker, whether it succeeds, fails, stops or reconnects,
\* changes the state of its own target only.
C18_TargetsIsolated ==
    /\ [][\A t \in Targets :
            (Own(t)' # Own(t) /\ mainpc' = mainpc)
            => \A u \in Targets \ {t} : Own(u)' = Own(u)]_vars
    /\ [](\A t \in Targets :
            /\ ~cfg[t].enabled => pc[t] = "idle" /\ NeverRan(t)
            /\ ~cfg[t].root_ok
               => pc[t] \in {"idle", "start", "stopped"} /\ NeverRan(t))

\* one target has stopped for want of its local root while the other has
\* failed, slept, connected again and reached its monitoring loop
C18_Witness ==
    \E t, u \in Targets :
        /\ t # u
        /\ ~cfg[t].root_ok /\ pc[t] = "stopped"
        /\ pc[u] = "watch" /\ session[u] > 1 /\ waited[u] # {}
        /\ passdone[u] > 0

(***************************************************************************)
(* Properties of permissive mode.                                          *)
(***************************************************************************)
\* entry i of the log of t is a mkdir or a put that succeeded
Created(t, i) == log[t][i].op \in {"mkdir", "put"} /\ log[t][i].ok

\* entry j of the log of t is the chmod that belongs to entry i
ChmodOf(t, i, j) ==
    /\ j = i + 1 /\ j <= Len(log[t])
    /\ log[t][j].op = "chmod" /\ log[t][j].path = log[t][i].path
    /\ log[t][j].session = log[t][i].session
    /\ log[t][j].phase = log[t][i].phase

\* C19: in permissive mode the call after every successful mkdir and put, in
\* the pass and in the event loop, is a chmod of the same path on the same
\* session, and every chmod is such a call; without permissive mode there is
\* no chmod.
C19_ChmodFollowsCreate ==
    \A t \in Targets :
        \A i \in 1..Len(log[t]) :
            /\ (cfg[t].permissive /\ Created(t, i)) => ChmodOf(t, i, i + 1)
            /\ log[t][i].op = "chmod"
               => /\ cfg[t].permissive
                  /\ i > 1 /\ Created(t, i - 1) /\ ChmodOf(t, i - 1, i)

\* a directory created and a file uploaded in the pass of a permissive target
\* and a creation in its event loop, each followed by its chmod
C19_Witness ==
    \E t \in Targets :
        /\ cfg[t].permissive
        /\ \A o \in {"mkdir", "put"} :
             \E i \in 1..Len(log[t]) :
                 /\ Created(t, i) /\ log[t][i].op = o
                 /\ log[t][i].phase = "sync" /\ ChmodOf(t, i, i + 1)
        /\ \E i \in 1..Len(log[t]) :
             /\ Created(t, i) /\ log[t][i].phase = "live"
             /\ ChmodOf(t, i, i + 1)

====
